---- MODULE Spec2Model ----
(***************************************************************************)
(* A model of js/custom.js: the script of a static portfolio page.  The    *)
(* state is the part of the document the script reads and writes (classes, *)
(* attributes, text, styles, field values), the one localStorage key, the  *)
(* listeners the script registered at load, and the events in flight.      *)
(* Every listener of the script is one action.                             *)
(*                                                                         *)
(* Four specifications share  the variables:                               *)
(*   Spec         load, reload, click dispatch (nav, theme, back-to-top)   *)
(*                and scroll events;                                       *)
(*   SpecForm     the contact form: typing and submit;                     *)
(*   SpecReveal   the IntersectionObserver of the reveal elements;         *)
(*   SpecSkill    the IntersectionObserver of the skill items and its      *)
(*                timers.                                                  *)
(* The animation delays of lines 224-228 and the word spans of lines       *)
(* 267-289 are written once at load and read by nothing else; they are     *)
(* left out.                                                               *)
(***************************************************************************)
EXTENDS Integers, Sequences, FiniteSets, TLC

VARIABLES
    doc,            \* ids of the elements the markup contains
    pc,             \* "parsed": script not yet run; "loaded": script has run;
                    \* "left": the browser navigated away
    listeners,      \* listeners registered by the script
    errors,         \* uncaught exceptions raised so far (by site)
    interacted,     \* a user event happened since the script ran
    \* ---- navigation
    navMarkup,      \* [show, expanded]: what the markup gives #nav / #navToggle
    navShow,        \* nav.classList.contains('show')
    ariaExpanded,   \* navToggle's aria-expanded attribute
    click,          \* the click event being dispatched, or NoClick
    \* ---- theme
    bodyDark,       \* document.body.classList.contains('dark')
    ariaPressed,    \* themeToggle's aria-pressed attribute
    themeText,      \* themeToggle.textContent
    storedTheme,    \* localStorage.getItem('theme')
    themeHist,      \* history: theme state before the last two toggle clicks
    \* ---- footer year
    yearText,       \* yearEl.textContent
    \* ---- back to top
    scrollY,        \* window.scrollY
    btnDisplay,     \* backToTopBtn.style.display
    scrollQueued,   \* a scroll event is waiting to be dispatched
    smooth,         \* a smooth scroll to the top is in progress
    lastStep,       \* history: the listener that ran last
    \* ---- contact form
    fieldDefault,   \* per field: the value the markup gives it (or Absent)
    fieldValue,     \* per field: its current value (or Absent)
    msgText,        \* formMsg.textContent
    msgColor,       \* formMsg.style.color
    lastSubmit,     \* history: the field values the last submit saw
    \* ---- observers
    ioSupported,    \* 'IntersectionObserver' in window
    revealVisible,  \* reveal elements currently past the 10% threshold
    skillVisible,   \* skill items currently past the 35% threshold
    revealSeen,     \* per reveal element: the state last reported for it
    revealObserved, \* reveal elements the reveal observer watches
    revealActive,   \* reveal elements with class 'active'
    revealQueue,    \* entries queued for the reveal observer
    revealCount,    \* history: per reveal element, inactive -> active steps
    revealReported, \* history: reveal elements the callback was given as intersecting
    skillHasBar,    \* skill items that contain a '.bar span'
    skillSeen,      \* per skill item: the state last reported for it
    skillObserved,  \* skill items the skill observer watches
    skillActive,    \* skill items with class 'active'
    skillWidth,     \* per skill item: bar.style.width
    skillQueue,     \* entries queued for the skill observer
    timers,         \* pending setTimeout callbacks: [skill, due, seq, batch]
    now,            \* the clock the timers are measured against
    timerSeq,       \* setTimeout calls made so far
    skillCount,     \* history: per skill item, activations carried out
    fired           \* history: the timers that fired, in the order they fired

pageVars == <<doc, pc, listeners, errors, interacted>>
navVars == <<navMarkup, navShow, ariaExpanded, click>>
themeVars == <<bodyDark, ariaPressed, themeText, storedTheme, themeHist>>
scrollVars == <<scrollY, btnDisplay, scrollQueued, smooth>>
formVars == <<fieldDefault, fieldValue, msgText, msgColor, lastSubmit>>
revealVars == <<revealVisible, revealSeen, revealObserved, revealActive, revealQueue,
               revealCount, revealReported>>
skillVars == <<skillVisible, skillSeen, skillHasBar, skillObserved, skillActive, skillWidth, skillQueue,
               timers, now, timerSeq, skillCount, fired>>
vars == <<pageVars, navVars, themeVars, yearText, scrollVars, lastStep, formVars,
          ioSupported, revealVars, skillVars>>

(***************************************************************************)
(* Bounds and program constants                                            *)
(***************************************************************************)
ScrollThreshold == 300
ScrollSpan == 1

ScrollOffsets == {0} \cup ((ScrollThreshold - ScrollSpan) .. (ScrollThreshold + ScrollSpan))

PageElements == {"navToggle", "nav", "themeToggle", "year", "backToTop"}
FormElements == {"contactForm", "formMsg"}

\* setAttribute(name, value) stores String(value): a boolean becomes "true"/"false"
ToAttr(b) == IF b THEN "true" ELSE "false"

(***************************************************************************)
(* Click dispatch: a click runs the listeners registered on its target,    *)
(* then bubbles to the listener registered on document.                    *)
(***************************************************************************)
Targets == {"navToggle", "navLink", "navOther", "themeToggle", "backToTop", "page"}

\* the element of the markup a click target needs
TargetElement(t) ==
    CASE t = "navToggle"   -> "navToggle"
      [] t = "navLink"     -> "nav"
      [] t = "navOther"    -> "nav"
      [] t = "themeToggle" -> "themeToggle"
      [] t = "backToTop"   -> "backToTop"
      [] OTHER             -> "body"

\* nav.contains(e.target)
NavContains(t) == t \in {"navLink", "navOther"}

\* navToggle.contains(e.target)
NavToggleContains(t) == t = "navToggle"

\* the listener the script may have put on a click target
TargetListener(t) ==
    CASE t = "navToggle"   -> "navToggle.click"
      [] t = "navLink"     -> "navLink.click"
      [] t = "themeToggle" -> "themeToggle.click"
      [] t = "backToTop"   -> "backToTop.click"
      [] OTHER             -> "none"

\* show0/exp0 and showT/expT record the nav state when the click was made and
\* when it reached document; toggled records that the toggle's listener has
\* run since the script was loaded
NoClick == [target |-> "none", phase |-> "done",
            show0 |-> FALSE, exp0 |-> "unset", showT |-> FALSE, expT |-> "unset",
            toggled |-> FALSE]

Idle == pc = "loaded" /\ click.phase = "done"

(***************************************************************************)
(* Elements the observers watch                                            *)
(***************************************************************************)
NumReveal == 2
NumSkill == 2
revealElements == 1 .. NumReveal
skillItems == 1 .. NumSkill

(***************************************************************************)
(* The script, run once when the page has been parsed (lines 26-325).      *)
(* Each block is guarded by the presence of its elements.                  *)
(***************************************************************************)
\* lines 31-67: the three nav listeners are registered together
NavBlock ==
    IF "navToggle" \in doc /\ "nav" \in doc
    THEN {"navToggle.click", "navLink.click", "document.click"}
    ELSE {}

\* lines 77-80
YearBlock ==
    yearText' = IF "year" \in doc THEN "fullYear" ELSE yearText

ThemeBlockWithoutPressed ==
    IF "themeToggle" \in doc /\ storedTheme = "dark"
    THEN /\ bodyDark' = TRUE
         /\ themeText' = "sun"
         /\ UNCHANGED ariaPressed
    ELSE UNCHANGED <<bodyDark, themeText, ariaPressed>>

\* lines 89-103: apply the saved theme; line 109 registers the listener
ThemeBlock ==
    IF "themeToggle" \in doc
    THEN IF storedTheme = "dark"
         THEN /\ bodyDark' = TRUE
              /\ themeText' = "sun"
              /\ ariaPressed' = "true"
         ELSE /\ ariaPressed' = "false"
              /\ UNCHANGED <<bodyDark, themeText>>
    ELSE UNCHANGED <<bodyDark, themeText, ariaPressed>>

ThemeListeners == IF "themeToggle" \in doc THEN {"themeToggle.click"} ELSE {}

\* line 132
FormListeners ==
    IF "contactForm" \in doc /\ "formMsg" \in doc THEN {"form.submit"} ELSE {}

\* lines 239-258
BackToTopListeners ==
    IF "backToTop" \in doc THEN {"window.scroll", "backToTop.click"} ELSE {}

RevealBlockWithoutElse ==
    IF Cardinality(revealElements) > 0
    THEN /\ revealObserved' = (IF ioSupported THEN revealElements ELSE revealObserved)
         /\ revealActive' = revealActive \cup revealElements
         /\ revealCount' = [e \in revealElements |->
                              IF e \in revealActive THEN revealCount[e]
                              ELSE revealCount[e] + 1]
    ELSE UNCHANGED <<revealObserved, revealActive, revealCount>>

\* lines 193-218: observe every reveal element, or activate them all at once
RevealBlock ==
    IF Cardinality(revealElements) > 0
    THEN IF ioSupported
         THEN /\ revealObserved' = revealElements
              /\ UNCHANGED <<revealActive, revealCount>>
         ELSE /\ revealActive' = revealActive \cup revealElements
              /\ revealCount' = [e \in revealElements |->
                                   IF e \in revealActive THEN revealCount[e]
                                   ELSE revealCount[e] + 1]
              /\ UNCHANGED revealObserved
    ELSE UNCHANGED <<revealObserved, revealActive, revealCount>>

\* lines 299, 324
SkillBlock ==
    skillObserved' = IF ioSupported /\ Cardinality(skillItems) > 0
                     THEN skillItems ELSE skillObserved

LoadScript ==
    /\ pc = "parsed"
    /\ pc' = "loaded"
    /\ listeners' = NavBlock \cup ThemeListeners \cup FormListeners \cup BackToTopListeners
    /\ YearBlock
    /\ ThemeBlock
    /\ RevealBlock
    /\ SkillBlock
    /\ lastStep' = "load"
    /\ UNCHANGED <<doc, errors, interacted, navVars, storedTheme, themeHist, scrollVars,
                   formVars, ioSupported, revealVisible, revealSeen, revealQueue,
                   revealReported,
                   skillVisible, skillSeen, skillHasBar, skillActive, skillWidth, skillQueue,
                   timers, now, timerSeq, skillCount, fired>>

(***************************************************************************)
(* Clicks                                                                  *)
(***************************************************************************)
otherThanClick == <<doc, pc, listeners, errors, navMarkup, yearText, btnDisplay,
                    formVars, ioSupported, revealVars, skillVars>>

\* the user clicks on t: the event is created, no listener has run yet
Click(t) ==
    /\ Idle
    /\ t \in Targets
    /\ TargetElement(t) \in doc \cup {"body"}
    /\ click' = [target |-> t, phase |-> "target",
                 show0 |-> navShow, exp0 |-> ariaExpanded,
                 showT |-> navShow, expT |-> ariaExpanded,
                 toggled |-> click.toggled]
    /\ interacted' = TRUE
    /\ lastStep' = "click"
    /\ UNCHANGED <<doc, pc, listeners, errors, navMarkup, navShow, ariaExpanded,
                   themeVars, yearText, scrollVars, formVars, ioSupported,
                   revealVars, skillVars>>

AtTarget(t) ==
    /\ pc = "loaded"
    /\ click.phase = "target"
    /\ click.target = t

\* the event leaves the target and bubbles up to document
Bubble(show, expanded) ==
    click' = [click EXCEPT !.phase = "document", !.showT = show, !.expT = expanded]

\* lines 37-40
NavToggleClick ==
    /\ AtTarget("navToggle")
    /\ "navToggle.click" \in listeners
    /\ LET isOpen == ~navShow
       IN /\ navShow' = isOpen
          /\ ariaExpanded' = ToAttr(isOpen)
          /\ click' = [click EXCEPT !.phase = "document", !.showT = isOpen,
                                    !.expT = ToAttr(isOpen), !.toggled = TRUE]
    /\ lastStep' = "navToggle.click"
    /\ UNCHANGED <<otherThanClick, interacted, themeVars, scrollY, scrollQueued, smooth>>

NavLinkClickKeepsExpanded ==
    /\ AtTarget("navLink")
    /\ "navLink.click" \in listeners
    /\ navShow' = FALSE
    /\ Bubble(FALSE, ariaExpanded)
    /\ lastStep' = "navLink.click"
    /\ UNCHANGED <<otherThanClick, interacted, ariaExpanded, themeVars,
                   scrollY, scrollQueued, smooth>>

\* lines 47-50
NavLinkClick ==
    /\ AtTarget("navLink")
    /\ "navLink.click" \in listeners
    /\ navShow' = FALSE
    /\ ariaExpanded' = "false"
    /\ Bubble(FALSE, "false")
    /\ lastStep' = "navLink.click"
    /\ UNCHANGED <<otherThanClick, interacted, themeVars, scrollY, scrollQueued, smooth>>

ThemeValueSwapped(isDark) == IF isDark THEN "light" ELSE "dark"
ThemeValueDarkOnly(isDark) == "dark"

\* line 117: the value persisted for the resulting state
ThemeValue(isDark) == IF isDark THEN "dark" ELSE "light"

\* lines 109-118
ThemeToggleClick ==
    /\ AtTarget("themeToggle")
    /\ "themeToggle.click" \in listeners
    /\ LET isDark == ~bodyDark
       IN /\ bodyDark' = isDark
          /\ themeText' = IF isDark THEN "sun" ELSE "moon"
          /\ ariaPressed' = ToAttr(isDark)
          /\ storedTheme' = ThemeValue(isDark)
    /\ themeHist' = [n |-> IF themeHist.n < 2 THEN themeHist.n + 1 ELSE 2,
                     dark1 |-> bodyDark, stored1 |-> storedTheme,
                     dark2 |-> themeHist.dark1, stored2 |-> themeHist.stored1]
    /\ Bubble(navShow, ariaExpanded)
    /\ lastStep' = "themeToggle.click"
    /\ UNCHANGED <<otherThanClick, interacted, navShow, ariaExpanded,
                   scrollY, scrollQueued, smooth>>

\* lines 252-257: window.scrollTo({top: 0, behavior: 'smooth'})
BackToTopClick ==
    /\ AtTarget("backToTop")
    /\ "backToTop.click" \in listeners
    /\ smooth' = (scrollY > 0)
    /\ Bubble(navShow, ariaExpanded)
    /\ lastStep' = "backToTop.click"
    /\ UNCHANGED <<otherThanClick, interacted, navShow, ariaExpanded, themeVars,
                   scrollY, scrollQueued>>

\* the target carries no listener of the script
NoTargetListener ==
    /\ pc = "loaded"
    /\ click.phase = "target"
    /\ TargetListener(click.target) \notin listeners
    /\ Bubble(navShow, ariaExpanded)
    /\ UNCHANGED <<otherThanClick, interacted, navShow, ariaExpanded, themeVars,
                   scrollY, scrollQueued, smooth, lastStep>>

ClosesNavInside(show, t) == show /\ ~NavToggleContains(t)
ClosesNavOnToggle(show, t) == show /\ ~NavContains(t)

\* lines 58-62: the condition under which the document listener closes the nav
ClosesNav(show, t) == show /\ ~NavContains(t) /\ ~NavToggleContains(t)

\* lines 57-66
DocumentClick ==
    /\ pc = "loaded"
    /\ click.phase = "document"
    /\ "document.click" \in listeners
    /\ IF ClosesNav(navShow, click.target)
       THEN /\ navShow' = FALSE
            /\ ariaExpanded' = "false"
       ELSE UNCHANGED <<navShow, ariaExpanded>>
    /\ click' = [click EXCEPT !.phase = "done"]
    /\ lastStep' = "document.click"
    /\ UNCHANGED <<otherThanClick, interacted, themeVars, scrollY, scrollQueued, smooth>>

\* the script put no listener on document
NoDocumentListener ==
    /\ pc = "loaded"
    /\ click.phase = "document"
    /\ "document.click" \notin listeners
    /\ click' = [click EXCEPT !.phase = "done"]
    /\ UNCHANGED <<otherThanClick, interacted, navShow, ariaExpanded, themeVars,
                   scrollY, scrollQueued, smooth, lastStep>>

(***************************************************************************)
(* Scrolling                                                               *)
(***************************************************************************)
otherThanScroll == <<doc, pc, listeners, errors, navVars, themeVars, yearText,
                     formVars, ioSupported, revealVars, skillVars>>

\* the user scrolls to offset y; the browser queues one scroll event
UserScroll(y) ==
    /\ Idle
    /\ y \in ScrollOffsets
    /\ y # scrollY
    /\ scrollY' = y
    /\ scrollQueued' = TRUE
    /\ smooth' = FALSE
    /\ interacted' = TRUE
    /\ lastStep' = "scrolled"
    /\ UNCHANGED <<otherThanScroll, btnDisplay>>

\* one frame of the smooth scroll started by the back-to-top button
SmoothStep(y) ==
    /\ Idle
    /\ smooth
    /\ y \in ScrollOffsets
    /\ y < scrollY
    /\ scrollY' = y
    /\ scrollQueued' = TRUE
    /\ smooth' = (y > 0)
    /\ lastStep' = "scrolled"
    /\ UNCHANGED <<otherThanScroll, btnDisplay, interacted>>

DisplayFromThreshold(y) == IF y >= ScrollThreshold THEN "block" ELSE "none"

\* line 246
DisplayFor(y) == IF y > ScrollThreshold THEN "block" ELSE "none"

\* lines 244-247
ScrollEvent ==
    /\ Idle
    /\ scrollQueued
    /\ "window.scroll" \in listeners
    /\ btnDisplay' = DisplayFor(scrollY)
    /\ scrollQueued' = FALSE
    /\ lastStep' = "window.scroll"
    /\ UNCHANGED <<otherThanScroll, scrollY, smooth, interacted>>

\* the scroll event finds no listener of the script
ScrollUnheard ==
    /\ Idle
    /\ scrollQueued
    /\ "window.scroll" \notin listeners
    /\ scrollQueued' = FALSE
    /\ UNCHANGED <<otherThanScroll, scrollY, smooth, interacted, btnDisplay, lastStep>>

(***************************************************************************)
(* The page as the markup gives it, before the script runs                 *)
(***************************************************************************)
Absent == <<"absent">>
Fields == {"name", "email", "message"}

NoHist == [n |-> 0, dark1 |-> FALSE, stored1 |-> "null",
           dark2 |-> FALSE, stored2 |-> "null"]
NoSubmit == [n |-> 0, name |-> Absent, email |-> Absent, message |-> Absent]

MarkupNav ==
    /\ navShow = navMarkup.show
    /\ ariaExpanded = navMarkup.expanded
    /\ click = NoClick

MarkupTheme ==
    /\ bodyDark = FALSE
    /\ ariaPressed = "unset"
    /\ themeText = "markup"
    /\ themeHist = NoHist

MarkupScroll ==
    /\ scrollY = 0
    /\ btnDisplay = "css"
    /\ scrollQueued = FALSE
    /\ smooth = FALSE

MarkupForm ==
    /\ fieldValue = fieldDefault
    /\ msgText = "markup"
    /\ msgColor = "css"
    /\ lastSubmit = NoSubmit

MarkupReveal ==
    /\ revealVisible = {}
    /\ revealSeen = [e \in revealElements |-> "none"]
    /\ revealObserved = {}
    /\ revealActive = {}
    /\ revealQueue = <<>>
    /\ revealCount = [e \in revealElements |-> 0]
    /\ revealReported = {}

MarkupSkill ==
    /\ skillVisible = {}
    /\ skillSeen = [k \in skillItems |-> "none"]
    /\ skillObserved = {}
    /\ skillActive = {}
    /\ skillWidth = [k \in skillItems |-> "css"]
    /\ skillQueue = <<>>
    /\ timers = {}
    /\ now = 0
    /\ timerSeq = 0
    /\ skillCount = [k \in skillItems |-> 0]
    /\ fired = <<>>

Parsed ==
    /\ pc = "parsed"
    /\ listeners = {}
    /\ errors = {}
    /\ interacted = FALSE
    /\ yearText = "markup"
    /\ lastStep = "none"
    /\ MarkupNav
    /\ MarkupTheme
    /\ MarkupScroll
    /\ MarkupForm
    /\ MarkupReveal
    /\ MarkupSkill

\* the user reloads the page: the document is rebuilt from the markup, the
\* script's listeners are gone, localStorage is kept
Reload ==
    /\ Idle
    /\ pc' = "parsed"
    /\ listeners' = {}
    /\ errors' = {}
    /\ interacted' = FALSE
    /\ yearText' = "markup"
    /\ lastStep' = "none"
    /\ navShow' = navMarkup.show
    /\ ariaExpanded' = navMarkup.expanded
    /\ click' = NoClick
    /\ bodyDark' = FALSE
    /\ ariaPressed' = "unset"
    /\ themeText' = "markup"
    /\ themeHist' = NoHist
    /\ scrollY' = 0
    /\ btnDisplay' = "css"
    /\ scrollQueued' = FALSE
    /\ smooth' = FALSE
    /\ fieldValue' = fieldDefault
    /\ msgText' = "markup"
    /\ msgColor' = "css"
    /\ lastSubmit' = NoSubmit
    /\ UNCHANGED <<doc, navMarkup, storedTheme, fieldDefault, ioSupported,
                   revealVars, skillVars>>

(***************************************************************************)
(* Spec: navigation, theme, footer year and back-to-top                    *)
(***************************************************************************)
Init ==
    /\ doc \in SUBSET PageElements
    /\ navMarkup \in [show : BOOLEAN, expanded : {"unset", "true", "false"}]
    /\ storedTheme = "null"
    /\ fieldDefault = [f \in Fields |-> <<>>]
    /\ ioSupported = TRUE
    /\ skillHasBar = skillItems
    /\ Parsed

Next ==
    \/ LoadScript
    \/ Reload
    \/ \E t \in Targets : Click(t)
    \/ NavToggleClick
    \/ NavLinkClick
    \/ ThemeToggleClick
    \/ BackToTopClick
    \/ NoTargetListener
    \/ DocumentClick
    \/ NoDocumentListener
    \/ \E y \in ScrollOffsets : UserScroll(y)
    \/ \E y \in ScrollOffsets : SmoothStep(y)
    \/ ScrollEvent
    \/ ScrollUnheard

Spec == Init /\ [][Next]_vars

(***************************************************************************)
(* SpecForm: the contact form.  A string is a sequence of characters.      *)
(***************************************************************************)
MaxEmailLen == 5

Chars == {"a", " ", "@", "."}
Undefined == <<"undefined">>

\* /\s/
IsSpace(c) == c = " "

RECURSIVE TrimStart(_)
TrimStart(s) ==
    IF s = <<>> THEN s
    ELSE IF IsSpace(Head(s)) THEN TrimStart(Tail(s)) ELSE s

RECURSIVE TrimEnd(_)
TrimEnd(s) ==
    IF s = <<>> THEN s
    ELSE IF IsSpace(s[Len(s)]) THEN TrimEnd(SubSeq(s, 1, Len(s) - 1)) ELSE s

\* String.prototype.trim
TrimIdentity(s) == s
trim(s) == TrimEnd(TrimStart(s))

\* lines 141-143: form.querySelector('[name=..]')?.value.trim()
FieldRead(values, f) ==
    IF values[f] = Absent THEN Undefined ELSE trim(values[f])

\* !v for a string or undefined
Falsy(v) == v = Undefined \/ v = <<>>

PlainOrSpace(c) == c # "@"

\* [^\s@]
Plain(c) == ~IsSpace(c) /\ c # "@"

\* line 182: the automaton of /^[^\s@]+@[^\s@]+\.[^\s@]+$/.  State 0: at ^;
\* 1: inside the first [^\s@]+; 2: after @; 3: inside the second [^\s@]+;
\* 4: after \. ; 5: inside the third [^\s@]+ (accepting at $).
RegexStep(q, c) ==
    CASE q = 0 -> IF Plain(c) THEN {1} ELSE {}
      [] q = 1 -> IF Plain(c) THEN {1} ELSE IF c = "@" THEN {2} ELSE {}
      [] q = 2 -> IF Plain(c) THEN {3} ELSE {}
      [] q = 3 -> IF c = "." THEN {3, 4} ELSE IF Plain(c) THEN {3} ELSE {}
      [] q = 4 -> IF Plain(c) THEN {5} ELSE {}
      [] OTHER -> IF Plain(c) THEN {5} ELSE {}

RECURSIVE RegexRun(_, _)
RegexRun(Q, s) ==
    IF s = <<>> THEN Q
    ELSE RegexRun(UNION {RegexStep(q, Head(s)) : q \in Q}, Tail(s))

\* lines 181-183
isValidEmailNoTld(email) == RegexRun({0}, email) \cap {3, 5} # {}
isValidEmail(email) == 5 \in RegexRun({0}, email)

\* line 161: form.reset() gives every field the value the markup gave it
KeepValues(values, defaults) == values
FormReset(values, defaults) == defaults

SubmitOutcomeResetsFirst(values, defaults) ==
    LET name == FieldRead(values, "name")
        email == FieldRead(values, "email")
        message == FieldRead(values, "message")
    IN IF Falsy(name) \/ Falsy(email) \/ Falsy(message)
       THEN [text |-> "fill", color |-> "red", values |-> values]
       ELSE IF ~isValidEmail(email)
       THEN [text |-> "invalid", color |-> "red",
             values |-> FormReset(values, defaults)]
       ELSE [text |-> "success", color |-> "green",
             values |-> FormReset(values, defaults)]

\* lines 145-162: the message shown and the field values left by a submit
SubmitOutcome(values, defaults) ==
    LET name == FieldRead(values, "name")
        email == FieldRead(values, "email")
        message == FieldRead(values, "message")
    IN IF Falsy(name) \/ Falsy(email) \/ Falsy(message)
       THEN [text |-> "fill", color |-> "red", values |-> values]
       ELSE IF ~isValidEmail(email)
       THEN [text |-> "invalid", color |-> "red", values |-> values]
       ELSE [text |-> "success", color |-> "green",
             values |-> FormReset(values, defaults)]

otherThanForm == <<doc, listeners, errors, navVars, themeVars, yearText, scrollVars,
                   ioSupported, revealVars, skillVars>>

\* lines 137-162, with showFormMessage (lines 170-174)
Submit ==
    /\ pc = "loaded"
    /\ "contactForm" \in doc
    /\ "form.submit" \in listeners
    /\ LET out == SubmitOutcome(fieldValue, fieldDefault)
       IN /\ msgText' = (IF "formMsg" \in doc THEN out.text ELSE msgText)
          /\ msgColor' = (IF "formMsg" \in doc THEN out.color ELSE msgColor)
          /\ fieldValue' = out.values
    /\ lastSubmit' = [n |-> 1, name |-> fieldValue["name"],
                      email |-> fieldValue["email"], message |-> fieldValue["message"]]
    /\ interacted' = TRUE
    /\ lastStep' = "form.submit"
    /\ UNCHANGED <<otherThanForm, pc, fieldDefault>>

\* the script registered no submit listener: the browser submits the form
\* itself and leaves the page
NativeSubmit ==
    /\ pc = "loaded"
    /\ "contactForm" \in doc
    /\ "form.submit" \notin listeners
    /\ pc' = "left"
    /\ interacted' = TRUE
    /\ UNCHANGED <<otherThanForm, formVars, lastStep>>

\* what one edit of the user can leave in field f: in the email field one
\* more character, the empty text, or a pasted address that needs trimming;
\* blank or plain text in the other fields
PastedEmails == {<<" ", "a", "@", "a", ".", "a", " ">>, <<"a", " ", "@", "a", ".", "a">>}
OtherTexts == {<<>>, <<" ">>, <<"a">>}
Edits(f, current) ==
    IF f = "email"
    THEN {<<>>} \cup PastedEmails
         \cup (IF Len(current) < MaxEmailLen
               THEN {Append(current, c) : c \in Chars} ELSE {})
    ELSE OtherTexts

\* the user edits field f
Type(f, v) ==
    /\ pc = "loaded"
    /\ "contactForm" \in doc
    /\ fieldValue[f] # Absent
    /\ v \in Edits(f, fieldValue[f])
    /\ v # fieldValue[f]
    /\ fieldValue' = [fieldValue EXCEPT ![f] = v]
    /\ lastSubmit' = NoSubmit
    /\ interacted' = TRUE
    /\ lastStep' = "typed"
    /\ UNCHANGED <<otherThanForm, pc, fieldDefault, msgText, msgColor>>

\* the markup of the form: a field is absent, empty or preset; at most one
\* field departs from an empty text field
FormMarkups ==
    {m \in [Fields -> {Absent, <<>>, <<"a">>}] :
        Cardinality({f \in Fields : m[f] # <<>>}) <= 1}

InitForm ==
    /\ doc \in SUBSET FormElements
    /\ navMarkup = [show |-> FALSE, expanded |-> "false"]
    /\ storedTheme = "null"
    /\ fieldDefault \in (IF FormElements \subseteq doc THEN FormMarkups
                         ELSE IF "contactForm" \in doc THEN {[f \in Fields |-> <<>>]}
                         ELSE {[f \in Fields |-> Absent]})
    /\ ioSupported = TRUE
    /\ skillHasBar = skillItems
    /\ Parsed

NextForm ==
    \/ LoadScript
    \/ Submit
    \/ NativeSubmit
    \/ \E f \in Fields : \E v \in Edits(f, fieldValue[f]) : Type(f, v)

SpecForm == InitForm /\ [][NextForm]_vars

(***************************************************************************)
(* IntersectionObserver: for every target it watches the browser queues an *)
(* entry when the target's state differs from the one last reported (the   *)
(* first report included), and later hands the queued entries to the       *)
(* callback as one batch.  unobserve drops the target, not queued entries. *)
(***************************************************************************)
MaxQueue == 3

Shown(visibleSet, e) == IF e \in visibleSet THEN "in" ELSE "out"

(***************************************************************************)
(* SpecReveal: the reveal elements                                         *)
(***************************************************************************)
otherThanReveal == <<doc, listeners, errors, interacted, navVars, themeVars, yearText,
                     scrollVars, lastStep, formVars, ioSupported, skillVars>>

\* scrolling moves reveal element e across the 10% threshold
RevealMove(e) ==
    /\ pc = "loaded"
    /\ revealVisible' = (IF e \in revealVisible THEN revealVisible \ {e}
                         ELSE revealVisible \cup {e})
    /\ UNCHANGED <<otherThanReveal, pc, revealSeen, revealObserved, revealActive,
                   revealQueue, revealCount, revealReported>>

\* the browser queues an entry for the watched element e
RevealNotice(e) ==
    /\ pc = "loaded"
    /\ e \in revealObserved
    /\ revealSeen[e] # Shown(revealVisible, e)
    /\ Len(revealQueue) < MaxQueue
    /\ revealQueue' = Append(revealQueue,
                             [target |-> e, isIntersecting |-> e \in revealVisible])
    /\ revealSeen' = [revealSeen EXCEPT ![e] = Shown(revealVisible, e)]
    /\ UNCHANGED <<otherThanReveal, pc, revealVisible, revealObserved, revealActive,
                   revealCount, revealReported>>

RevealEntryKeepsWatching(st, entry) ==
    IF entry.isIntersecting
    THEN [st EXCEPT !.active = st.active \cup {entry.target},
                    !.count[entry.target] =
                        IF entry.target \in st.active THEN @ ELSE @ + 1]
    ELSE st

\* lines 203-206: what the callback does with one entry
RevealEntry(st, entry) ==
    IF entry.isIntersecting
    THEN [active |-> st.active \cup {entry.target},
          count |-> [st.count EXCEPT ![entry.target] =
                        IF entry.target \in st.active THEN @ ELSE @ + 1],
          observed |-> st.observed \ {entry.target},
          seen |-> [st.seen EXCEPT ![entry.target] = "none"]]
    ELSE st

\* line 202: entries.forEach
RECURSIVE RevealEach(_, _)
RevealEach(st, entries) ==
    IF entries = <<>> THEN st
    ELSE RevealEach(RevealEntry(st, Head(entries)), Tail(entries))

\* lines 201-208: the observer's callback receives the queued entries
RevealCallback ==
    /\ pc = "loaded"
    /\ revealQueue # <<>>
    /\ LET st == RevealEach([active |-> revealActive, count |-> revealCount,
                             observed |-> revealObserved, seen |-> revealSeen],
                            revealQueue)
       IN /\ revealActive' = st.active
          /\ revealCount' = st.count
          /\ revealObserved' = st.observed
          /\ revealSeen' = st.seen
    /\ revealReported' = revealReported \cup
                           {revealQueue[i].target : i \in
                               {j \in 1 .. Len(revealQueue) : revealQueue[j].isIntersecting}}
    /\ revealQueue' = <<>>
    /\ UNCHANGED <<otherThanReveal, pc, revealVisible>>

InitReveal ==
    /\ doc = {}
    /\ navMarkup = [show |-> FALSE, expanded |-> "false"]
    /\ storedTheme = "null"
    /\ fieldDefault = [f \in Fields |-> Absent]
    /\ ioSupported \in BOOLEAN
    /\ skillHasBar = skillItems
    /\ Parsed

NextReveal ==
    \/ LoadScript
    \/ \E e \in revealElements : RevealMove(e)
    \/ \E e \in revealElements : RevealNotice(e)
    \/ RevealCallback

SpecReveal == InitReveal /\ [][NextReveal]_vars

(***************************************************************************)
(* SpecSkill: the skill items and their timers                             *)
(***************************************************************************)
StaggerMs == 180
MaxTicks == 2

otherThanSkill == <<doc, listeners, interacted, navVars, themeVars, yearText,
                    scrollVars, lastStep, formVars, ioSupported, revealVars>>

\* scrolling moves skill item k across the 35% threshold; only the observer
\* reads where an item is, so an item it does not watch is not followed
SkillMove(k) ==
    /\ pc = "loaded"
    /\ k \in skillObserved
    /\ skillVisible' = (IF k \in skillVisible THEN skillVisible \ {k}
                        ELSE skillVisible \cup {k})
    /\ UNCHANGED <<otherThanSkill, pc, errors, skillSeen, skillHasBar, skillObserved,
                   skillActive, skillWidth, skillQueue, timers, now, timerSeq,
                   skillCount, fired>>

\* the browser queues an entry for the watched item k
SkillNotice(k) ==
    /\ pc = "loaded"
    /\ k \in skillObserved
    /\ skillSeen[k] # Shown(skillVisible, k)
    /\ Len(skillQueue) < MaxQueue
    /\ skillQueue' = Append(skillQueue,
                            [target |-> k, isIntersecting |-> k \in skillVisible])
    /\ skillSeen' = [skillSeen EXCEPT ![k] = Shown(skillVisible, k)]
    /\ UNCHANGED <<otherThanSkill, pc, errors, skillVisible, skillHasBar, skillObserved,
                   skillActive, skillWidth, timers, now, timerSeq, skillCount, fired>>

\* lines 303-315: what the callback does with the entry at position index.
\* skill.querySelector('.bar span') is null when the item has no bar, and
\* reading bar.dataset then throws a TypeError out of the callback.
SkillEntryReversed(st, entry, index) ==
    IF ~entry.isIntersecting THEN st
    ELSE IF entry.target \notin skillHasBar THEN [st EXCEPT !.thrown = TRUE]
    ELSE [st EXCEPT !.timers = @ \cup {[skill |-> entry.target,
                                        due |-> now + (Len(skillQueue) - 1 - index)
                                                        * StaggerMs,
                                        seq |-> st.seq + 1,
                                        batch |-> timerSeq]},
                    !.seq = @ + 1,
                    !.observed = @ \ {entry.target},
                    !.seen[entry.target] = "none"]

SkillEntryKeepsWatching(st, entry, index) ==
    IF ~entry.isIntersecting THEN st
    ELSE IF entry.target \notin skillHasBar THEN [st EXCEPT !.thrown = TRUE]
    ELSE [st EXCEPT !.timers = @ \cup {[skill |-> entry.target,
                                        due |-> now + index * StaggerMs,
                                        seq |-> st.seq + 1,
                                        batch |-> timerSeq]},
                    !.seq = @ + 1]

\* a timer carries, besides its item and due time, the number seq of the
\* setTimeout call that made it and, as batch, the number of calls made
\* before the callback that made it was entered
SkillEntry(st, entry, index) ==
    IF ~entry.isIntersecting THEN st
    ELSE IF entry.target \notin skillHasBar THEN [st EXCEPT !.thrown = TRUE]
    ELSE [st EXCEPT !.timers = @ \cup {[skill |-> entry.target,
                                        due |-> now + index * StaggerMs,
                                        seq |-> st.seq + 1,
                                        batch |-> timerSeq]},
                    !.seq = @ + 1,
                    !.observed = @ \ {entry.target},
                    !.seen[entry.target] = "none"]

\* line 302: entries.forEach((entry, index) => ...), left by an exception
RECURSIVE SkillEach(_, _, _)
SkillEach(st, entries, index) ==
    IF entries = <<>> \/ st.thrown THEN st
    ELSE SkillEach(SkillEntry(st, Head(entries), index), Tail(entries), index + 1)

\* lines 301-317: the observer's callback receives the queued entries
SkillCallback ==
    /\ pc = "loaded"
    /\ skillQueue # <<>>
    /\ LET st == SkillEach([timers |-> timers, seq |-> timerSeq,
                            observed |-> skillObserved, seen |-> skillSeen,
                            thrown |-> FALSE],
                           skillQueue, 0)
       IN /\ timers' = st.timers
          /\ timerSeq' = st.seq
          /\ skillObserved' = st.observed
          /\ skillSeen' = st.seen
          /\ errors' = (IF st.thrown THEN errors \cup {"skillObserver"} ELSE errors)
    /\ skillQueue' = <<>>
    /\ UNCHANGED <<otherThanSkill, pc, skillVisible, skillHasBar, skillActive,
                   skillWidth, now, skillCount, fired>>

\* time passes; the clock matters only while a timer is pending
Tick ==
    /\ pc = "loaded"
    /\ timers # {}
    /\ now < MaxTicks * StaggerMs
    /\ now' = now + StaggerMs
    /\ UNCHANGED <<otherThanSkill, pc, errors, skillVisible, skillSeen, skillHasBar,
                   skillObserved, skillActive, skillWidth, skillQueue, timers,
                   timerSeq, skillCount, fired>>

\* timers run in the order of their due time, and of their creation when due
\* at the same time
Earlier(t, u) == t.due < u.due \/ (t.due = u.due /\ t.seq < u.seq)

\* lines 310-313: the callback given to setTimeout runs
SkillTimer(t) ==
    /\ pc = "loaded"
    /\ t \in timers
    /\ t.due <= now
    /\ \A u \in timers \ {t} : Earlier(t, u)
    /\ skillActive' = skillActive \cup {t.skill}
    /\ skillWidth' = [skillWidth EXCEPT ![t.skill] = "target%"]
    /\ timers' = timers \ {t}
    /\ skillCount' = [skillCount EXCEPT ![t.skill] = @ + 1]
    /\ fired' = Append(fired, t)
    /\ UNCHANGED <<otherThanSkill, pc, errors, skillVisible, skillSeen, skillHasBar,
                   skillObserved, skillQueue, now, timerSeq>>

InitSkill ==
    /\ doc = {}
    /\ navMarkup = [show |-> FALSE, expanded |-> "false"]
    /\ storedTheme = "null"
    /\ fieldDefault = [f \in Fields |-> Absent]
    /\ ioSupported \in BOOLEAN
    /\ skillHasBar \in SUBSET skillItems
    /\ Parsed

NextSkill ==
    \/ LoadScript
    \/ \E k \in skillItems : SkillMove(k)
    \/ \E k \in skillItems : SkillNotice(k)
    \/ SkillCallback
    \/ Tick
    \/ \E t \in timers : SkillTimer(t)

SpecSkill == InitSkill /\ [][NextSkill]_vars

(***************************************************************************)
(* Properties of the contact form (SpecForm)                               *)
(***************************************************************************)
\* a field whose element is missing, or whose text is empty or only spaces
Blank(v) == v = Absent \/ \A i \in 1 .. Len(v) : v[i] = " "

\* the text between the first and the last character that is not a space
Core(v) ==
    LET inked == {i \in 1 .. Len(v) : v[i] # " "}
    IN IF inked = {} THEN <<>>
       ELSE SubSeq(v, CHOOSE i \in inked : \A j \in inked : i <= j,
                      CHOOSE i \in inked : \A j \in inked : j <= i)

\* x@y.z: one "@", no space, text before the "@", and after it a "." with
\* text on both sides
XYZShape(e) ==
    \E at, dot \in 1 .. Len(e) :
        /\ 1 < at /\ at + 1 < dot /\ dot < Len(e)
        /\ e[dot] = "."
        /\ \A k \in 1 .. Len(e) : e[k] # " " /\ (e[k] = "@" <=> k = at)

Submitted == lastSubmit.n = 1
SomeBlank == Blank(lastSubmit.name) \/ Blank(lastSubmit.email) \/ Blank(lastSubmit.message)

\* C1: a submit that saw an absent, empty or all-space name, email or message
\* leaves the 'fill all fields' message (in red), not the success message.
BlankFieldAsksToFill ==
    (Submitted /\ SomeBlank) => msgText = "fill" /\ msgColor = "red"

BlankFieldSubmitted ==
    /\ Submitted
    /\ lastSubmit.name = <<" ">>
    /\ XYZShape(lastSubmit.email)
    /\ ~Blank(lastSubmit.message)
    /\ msgText = "fill"

\* C2: a submit that saw three non-blank fields and an email that, trimmed,
\* is not x@y.z-shaped leaves the 'invalid email' message (in red).
MalformedEmailRejected ==
    (Submitted /\ ~SomeBlank /\ ~XYZShape(Core(lastSubmit.email)))
        => msgText = "invalid" /\ msgColor = "red"

MalformedEmailSubmitted ==
    /\ Submitted
    /\ ~SomeBlank
    /\ lastSubmit.email = <<"a", " ", "@", "a", ".", "a">>
    /\ msgText = "invalid"

\* C3 as claimed: a submit that saw three non-blank fields and a well-formed
\* email shows the success message in green and leaves every field empty.
SuccessClearsFields ==
    (Submitted /\ ~SomeBlank /\ XYZShape(Core(lastSubmit.email)))
        => /\ msgText = "success" /\ msgColor = "green"
           /\ \A f \in Fields : fieldValue[f] = <<>>

\* C3 amended: such a submit shows the success message in green and gives
\* every field the value the markup gave it (empty when it gave none).
SuccessResetsFields ==
    (Submitted /\ ~SomeBlank /\ XYZShape(Core(lastSubmit.email)))
        => /\ msgText = "success" /\ msgColor = "green"
           /\ \A f \in Fields : fieldValue[f] = fieldDefault[f]

SuccessSubmitted ==
    /\ Submitted
    /\ lastSubmit.name = <<"a">>
    /\ lastSubmit.email = <<" ", "a", "@", "a", ".", "a", " ">>
    /\ lastSubmit.message = <<"a">>
    /\ msgText = "success"
    /\ \A f \in Fields : fieldValue[f] = <<>>

(***************************************************************************)
(* Properties of the theme switch, the nav and the back-to-top button      *)
(* (Spec)                                                                  *)
(***************************************************************************)
\* C4 as claimed: after two consecutive clicks on the theme toggle the body's
\* dark class and the stored preference are what they were before the two.
TwoTogglesRestoreAll ==
    themeHist.n = 2 => bodyDark = themeHist.dark2 /\ storedTheme = themeHist.stored2

\* C4 amended: after two consecutive clicks the dark class is what it was, and
\* so is the stored preference if there was one; if none was stored, the
\* stored preference is now 'light'.
TwoTogglesRestoreStored ==
    themeHist.n = 2 =>
        /\ bodyDark = themeHist.dark2
        /\ storedTheme = (IF themeHist.stored2 = "null" THEN "light"
                          ELSE themeHist.stored2)

ToggledTwiceFromUnset ==
    /\ themeHist.n = 2
    /\ themeHist.stored2 = "null"
    /\ ~themeHist.dark2
    /\ ~bodyDark
    /\ storedTheme = "light"

\* C5: when the script has run with 'dark' stored and the user has not yet
\* acted, the body has the dark class and aria-pressed is 'true'.
DarkAppliedAtLoad ==
    (pc = "loaded" /\ ~interacted /\ storedTheme = "dark")
        => bodyDark /\ ariaPressed = "true"

LoadedWithDarkStored ==
    /\ pc = "loaded"
    /\ ~interacted
    /\ storedTheme = "dark"
    /\ bodyDark
    /\ ariaPressed = "true"

\* C7: right after the scroll listener ran, the button is displayed 'block'
\* if the offset is 301 or more and 'none' if it is 300 or less.
ButtonFollowsOffset ==
    lastStep = "window.scroll" =>
        /\ scrollY >= 301 => btnDisplay = "block"
        /\ scrollY <= 300 => btnDisplay = "none"

HiddenAtThreshold ==
    /\ lastStep = "window.scroll"
    /\ scrollY = 300
    /\ btnDisplay = "none"

Clicked == click.phase = "done" /\ click.target # "none"
Outside(t) == t \notin {"navToggle", "navLink", "navOther"}

\* C8 as claimed: once the listeners of a click have run: if the nav was open
\* and the target is outside nav and toggle, the nav is closed and
\* aria-expanded is 'false'; a click inside the nav off any link, and any
\* click made while the nav was closed, left show and aria-expanded as they
\* were.
OutsideClickClosesOnly ==
    (Clicked /\ "document.click" \in listeners) =>
        /\ (click.show0 /\ Outside(click.target))
              => ~navShow /\ ariaExpanded = "false"
        /\ (click.target = "navOther" \/ ~click.show0)
              => navShow = click.show0 /\ ariaExpanded = click.exp0

\* C8 amended: as claimed, except that the clicks made while the nav was
\* closed that change nothing are those off the toggle and off the nav links;
\* and whenever the nav is closed when a click reaches document, the document
\* listener changes nothing.
OutsideClickCloses ==
    (Clicked /\ "document.click" \in listeners) =>
        /\ (click.show0 /\ Outside(click.target))
              => ~navShow /\ ariaExpanded = "false"
        /\ (click.target = "navOther"
               \/ (~click.show0 /\ click.target \notin {"navToggle", "navLink"}))
              => navShow = click.show0 /\ ariaExpanded = click.exp0
        /\ ~click.showT
              => navShow = click.showT /\ ariaExpanded = click.expT

ThemeClickClosedNav ==
    /\ Clicked
    /\ click.target = "themeToggle"
    /\ click.show0
    /\ click.exp0 = "true"
    /\ ~navShow
    /\ ariaExpanded = "false"

\* C9: once all listeners of a click have run, a click on the nav toggle has
\* flipped show, and a click on a nav link has left the nav closed.
ToggleClickFlips ==
    (Clicked /\ "navToggle.click" \in listeners) =>
        /\ click.target = "navToggle" => navShow = ~click.show0
        /\ click.target = "navLink" => ~navShow

ToggleClickOpened ==
    /\ Clicked
    /\ click.target = "navToggle"
    /\ ~click.show0
    /\ navShow

(***************************************************************************)
(* Properties of the observers (SpecReveal, SpecSkill)                     *)
(***************************************************************************)
\* C6: a reveal element has gone from inactive to active at most once, is
\* still active if it has, and is no longer watched once the callback has
\* made it active.
RevealedOnce ==
    \A e \in revealElements :
        /\ revealCount[e] <= 1
        /\ revealCount[e] = 1 => e \in revealActive
        /\ e \in revealActive => e \notin revealObserved

RevealedAndLeft ==
    /\ ioSupported
    /\ 1 \in revealActive
    /\ 1 \notin revealVisible
    /\ 1 \notin revealObserved
    /\ revealCount[1] = 1

\* C10: an element a component expects is absent: the component has changed
\* nothing and nothing has thrown.
AbsentElementDisables ==
    /\ errors = {}
    /\ ("navToggle" \notin doc \/ "nav" \notin doc)
          => navShow = navMarkup.show /\ ariaExpanded = navMarkup.expanded
    /\ "themeToggle" \notin doc
          => /\ ~bodyDark /\ ariaPressed = "unset" /\ themeText = "markup"
             /\ storedTheme = "null"
    /\ "year" \notin doc => yearText = "markup"
    /\ ("contactForm" \notin doc \/ "formMsg" \notin doc)
          => msgText = "markup" /\ msgColor = "css" /\ lastSubmit = NoSubmit
    /\ "backToTop" \notin doc => btnDisplay = "css" /\ ~smooth
    /\ \A k \in skillItems \ skillHasBar :
          k \notin skillActive /\ skillWidth[k] = "css"

\* C11: the activation callback (class 'active' added, bar width set) has run
\* at most once for each skill item.
SkillActivatedOnce ==
    \A k \in skillItems : skillCount[k] <= 1

\* timer t has run while timer u had not
RanBefore(t, u) ==
    \E i \in 1 .. Len(fired) :
        /\ fired[i] = t
        /\ u \in timers \/ \E j \in (i + 1) .. Len(fired) : fired[j] = u

AllTimers == timers \cup {fired[i] : i \in 1 .. Len(fired)}

\* C12 as claimed: of two skill items, the one reported intersecting first
\* (earlier in the same batch or in an earlier batch) is never activated
\* after the other.
ReportOrderKept ==
    \A t, u \in AllTimers :
        (t.skill # u.skill /\ t.seq < u.seq) => ~RanBefore(u, t)

\* C12 amended: of two skill items reported intersecting in the same batch,
\* the one reported first is never activated after the other.
BatchOrderKept ==
    \A t, u \in AllTimers :
        (t.skill # u.skill /\ t.batch = u.batch /\ t.seq < u.seq) => ~RanBefore(u, t)

TwoOfOneBatchFired ==
    /\ Len(fired) = 2
    /\ fired[1].batch = fired[2].batch
    /\ fired[1].skill # fired[2].skill
    /\ fired[1].seq < fired[2].seq
    /\ fired[1].due < fired[2].due

Watching == pc = "loaded" /\ ioSupported

\* C13 as claimed: a skill item the observer has stopped watching is already
\* active.
ActiveBeforeUnobserved ==
    \A k \in skillItems : (Watching /\ k \notin skillObserved) => k \in skillActive

\* C13 amended: the observer stops watching a skill item in the callback that
\* sets its timer; the item is made active later, when the timer runs.  An
\* active item is no longer watched, and an item no longer watched that is not
\* yet active has a timer pending.
UnobservedBeforeActive ==
    \A k \in skillItems :
        /\ k \in skillActive => k \notin skillObserved
        /\ (Watching /\ k \notin skillObserved /\ k \notin skillActive)
              => \E t \in timers : t.skill = k

UnobservedAwaitingTimer ==
    /\ Watching
    /\ 1 \notin skillObserved
    /\ 1 \notin skillActive
    /\ skillWidth[1] = "css"
    /\ \E t \in timers : t.skill = 1 /\ t.due > now

(***************************************************************************)
(* Further properties of the nav and the theme switch (Spec)               *)
(***************************************************************************)
\* C14: once the toggle has been clicked, after every click whose listeners
\* have all run, aria-expanded is 'true' if the nav has class 'show' and
\* 'false' if it has not.
ExpandedMatchesShow ==
    (click.phase = "done" /\ click.toggled) =>
        ariaExpanded = (IF navShow THEN "true" ELSE "false")

LinkClosedAfterToggle ==
    /\ click.phase = "done"
    /\ click.toggled
    /\ click.target = "navLink"
    /\ click.show0
    /\ ~navShow
    /\ ariaExpanded = "false"

\* C15: once the theme toggle has been clicked, the stored theme is 'dark' if
\* the body has class 'dark' and 'light' if not, and aria-pressed is 'true'
\* in the first case and 'false' in the second.
StoredMatchesClass ==
    themeHist.n >= 1 =>
        /\ storedTheme = (IF bodyDark THEN "dark" ELSE "light")
        /\ ariaPressed = (IF bodyDark THEN "true" ELSE "false")

ToggledBackToLight ==
    /\ themeHist.n = 2
    /\ themeHist.stored1 = "dark"
    /\ ~bodyDark
    /\ storedTheme = "light"
    /\ ariaPressed = "false"

(***************************************************************************)
(* Further properties of the contact form (SpecForm)                       *)
(***************************************************************************)
Accepted == Submitted /\ msgText = "success"
Positions(e, c) == {i \in 1 .. Len(e) : e[i] = c}
First(S) == CHOOSE i \in S : \A j \in S : i <= j
Last(S) == CHOOSE i \in S : \A j \in S : j <= i
DotsAfterAt(e) == {d \in Positions(e, ".") : d > First(Positions(e, "@"))}

\* no whitespace before the "@", and none between the "@" and the "." that
\* follows it
NoSpaceUpToDot(e) ==
    /\ Positions(e, "@") # {}
    /\ DotsAfterAt(e) # {}
    /\ \A k \in 1 .. First(DotsAfterAt(e)) : e[k] # " "

\* C16 as claimed: an email the check accepted has no whitespace before the
\* "@", none between the "@" and the following ".", and at least one
\* character after the last "." of the string.
AcceptedEndsAfterLastDot ==
    Accepted =>
        LET e == Core(lastSubmit.email)
        IN NoSpaceUpToDot(e) /\ Last(Positions(e, ".")) < Len(e)

\* C16 amended: an email the check accepted has no whitespace before the "@",
\* none between the "@" and the following ".", and at least one character
\* after a "." that follows the "@"; it may end in a ".".
AcceptedEndsAfterSomeDot ==
    Accepted =>
        LET e == Core(lastSubmit.email)
        IN NoSpaceUpToDot(e) /\ \E d \in DotsAfterAt(e) : d < Len(e)

AcceptedEndingInDot ==
    /\ Accepted
    /\ lastSubmit.email = <<"a", "@", "a", ".", ".">>

\* C18: a submit that ends with the 'fill all fields' or the 'invalid email'
\* message changes nothing but the message text and colour: the field values
\* and everything else stay as they were.
FailedSubmitKeepsFields ==
    [][(lastStep' = "form.submit" /\ msgText' # "success")
          => /\ fieldValue' = fieldValue
             /\ UNCHANGED <<otherThanForm, pc, fieldDefault>>]_vars

FailedSubmitOfTypedFields ==
    /\ Submitted
    /\ msgText = "invalid"
    /\ msgColor = "red"
    /\ fieldValue = [name |-> <<"a">>, email |-> <<"a", "@", "a">>, message |-> <<"a">>]
    /\ fieldValue # fieldDefault

(***************************************************************************)
(* Further property of the reveal elements (SpecReveal)                    *)
(***************************************************************************)
\* C17: once the script has run: without IntersectionObserver every reveal
\* element is active; with it, the only active reveal elements are those the
\* callback was given as intersecting.
RevealGatedBySupport ==
    pc = "loaded" =>
        /\ ~ioSupported => revealActive = revealElements
        /\ ioSupported => revealActive \subseteq revealReported

AllActiveWithoutObserver ==
    /\ pc = "loaded"
    /\ ~ioSupported
    /\ revealActive = revealElements
    /\ revealObserved = {}
    /\ revealReported = {}

====
